---- MODULE Spec2Model ----
(***************************************************************************)
(* Model of merge_and_dedupe.py: the BackupRestoreItems accumulator        *)
(* (get_slug, get_address_key, add, _fix_contact_names, get_list), the     *)
(* loader get_ordered_list_of_items, render_from_list and the main script. *)
(*                                                                         *)
(* A Python str value is a sequence of one-character strings, so that      *)
(* str.lstrip and the string comparison used by sorted() are computed.     *)
(* An Element's attrib (a dict, insertion-ordered) is a sequence of        *)
(* [k, v] pairs in the order the attributes appear in the XML.             *)
(***************************************************************************)
EXTENDS Integers, Sequences, FiniteSets, TLC

\* ------------------------------------------------------------------------
\* Module constants (merge_and_dedupe.py:20-32)
\* ------------------------------------------------------------------------
UNKNOWN_CONTACT == <<"(", "U", "n", "k", "n", "o", "w", "n", ")">>

READABLE_DATE == "readable_date"

CONTACT_NAME == "contact_name"

DATE == "date"

FIELDS_TO_IGNORE == <<READABLE_DATE, CONTACT_NAME>>

POSSIBLE_ADDRESS_KEYS == <<"number", "address">>

\* ------------------------------------------------------------------------
\* dict / str primitives of the Python runtime used by the program
\* ------------------------------------------------------------------------
Attr(key, val) == [k |-> key, v |-> val]

\* key in item.attrib
HasKey(attrib, key) == \E i \in DOMAIN attrib : attrib[i].k = key

\* item.attrib[key]   (only used where the key is present)
GetAttr(attrib, key) == attrib[CHOOSE i \in DOMAIN attrib : attrib[i].k = key].v

\* item.attrib[key] = val for a key that is present: the position is kept
SetAttr(attrib, key, val) ==
    [i \in DOMAIN attrib |-> IF attrib[i].k = key THEN Attr(key, val) ELSE attrib[i]]

\* attrib.pop(key) for a key that is present
Pop(attrib, key) == SelectSeq(attrib, LAMBDA p : p.k # key)

\* s.lstrip(c): every leading occurrence of the character c is removed
RECURSIVE LStrip(_, _)
LStrip(s, c) ==
    IF s # <<>> /\ Head(s) = c THEN LStrip(Tail(s), c) ELSE s

\* ord() of the characters that occur in date strings
Ord(c) ==
    CASE c = "0" -> 48 [] c = "1" -> 49 [] c = "2" -> 50 [] c = "3" -> 51
      [] c = "4" -> 52 [] c = "5" -> 53 [] c = "6" -> 54 [] c = "7" -> 55
      [] c = "8" -> 56 [] c = "9" -> 57

\* a < b on Python str: lexicographic by code point, a proper prefix is smaller
RECURSIVE StrLess(_, _)
StrLess(a, b) ==
    IF a = <<>> THEN b # <<>>
    ELSE IF b = <<>> THEN FALSE
    ELSE IF Head(a) = Head(b) THEN StrLess(Tail(a), Tail(b))
    ELSE Ord(Head(a)) < Ord(Head(b))

\* repr() of a str without quotes or escapes in it: 'chars'
ReprStr(s) == <<"'">> \o s \o <<"'">>

\* str(dict): {'k': 'v', 'k': 'v'} in insertion order; a key is one token
RECURSIVE StrPairs(_)
StrPairs(attrib) ==
    IF attrib = <<>> THEN <<>>
    ELSE <<"'", attrib[1].k, "'", ":", " ">> \o ReprStr(attrib[1].v)
         \o (IF Len(attrib) > 1 THEN <<",", " ">> ELSE <<>>)
         \o StrPairs(Tail(attrib))

StrDict(attrib) == <<"{">> \o StrPairs(attrib) \o <<"}">>

\* str(n) for n >= 0: the decimal digits
Digit(d) ==
    CASE d = 0 -> "0" [] d = 1 -> "1" [] d = 2 -> "2" [] d = 3 -> "3"
      [] d = 4 -> "4" [] d = 5 -> "5" [] d = 6 -> "6" [] d = 7 -> "7"
      [] d = 8 -> "8" [] d = 9 -> "9"

RECURSIVE StrInt(_)
StrInt(n) == IF n < 10 THEN <<Digit(n)>> ELSE StrInt(n \div 10) \o <<Digit(n % 10)>>

\* ------------------------------------------------------------------------
\* BackupRestoreItems: pure parts
\* ------------------------------------------------------------------------
\* get_slug raises KeyError when a field of FIELDS_TO_IGNORE is absent:
\* attrib.pop(i) has no default
get_slug_raises(item) ==
    \E i \in DOMAIN FIELDS_TO_IGNORE : ~HasKey(item, FIELDS_TO_IGNORE[i])

\* get_slug with contact_name left in the slug
get_slug_keeps_name(item) == StrDict(Pop(item, FIELDS_TO_IGNORE[1]))

\* the place of an attribute key in the alphabet
KeyRank(key) ==
    CASE key = "address" -> 1 [] key = CONTACT_NAME -> 2 [] key = DATE -> 3
      [] key = "number" -> 4 [] key = READABLE_DATE -> 5 [] OTHER -> 6

RECURSIVE SortedByKey(_)
SortedByKey(attrib) ==
    IF attrib = <<>> THEN <<>>
    ELSE LET least == CHOOSE i \in DOMAIN attrib :
                          \A j \in DOMAIN attrib : KeyRank(attrib[i].k) <= KeyRank(attrib[j].k)
         IN  <<attrib[least]>>
             \o SortedByKey(SubSeq(attrib, 1, least - 1)
                            \o SubSeq(attrib, least + 1, Len(attrib)))

\* get_slug that serializes the attributes in the order of their keys
get_slug_sorted_keys(item) ==
    StrDict(SortedByKey(Pop(Pop(item, FIELDS_TO_IGNORE[1]), FIELDS_TO_IGNORE[2])))

get_slug(item) == StrDict(Pop(Pop(item, FIELDS_TO_IGNORE[1]), FIELDS_TO_IGNORE[2]))

\* get_address_key raises KeyError("No address key found") when neither key is there
get_address_key_raises(item) ==
    \A i \in DOMAIN POSSIBLE_ADDRESS_KEYS : ~HasKey(item, POSSIBLE_ADDRESS_KEYS[i])

get_address_key(item) ==
    POSSIBLE_ADDRESS_KEYS[
        CHOOSE i \in DOMAIN POSSIBLE_ADDRESS_KEYS :
            /\ HasKey(item, POSSIBLE_ADDRESS_KEYS[i])
            /\ \A j \in DOMAIN POSSIBLE_ADDRESS_KEYS :
                   j < i => ~HasKey(item, POSSIBLE_ADDRESS_KEYS[j])]

\* ------------------------------------------------------------------------
\* BackupRestoreItems: state and operations
\*   _item_dict: an insertion-ordered dict slug -> Element, here the
\*       sequence of its [slug, item] entries in insertion order;
\*   _number_to_contact_name: a defaultdict, here a function whose domain
\*       is the set of keys it holds.
\* ------------------------------------------------------------------------
EmptyDict == <<>>

EmptyTable == [x \in {} |-> UNKNOWN_CONTACT]

InDict(d, slug) == \E i \in DOMAIN d : d[i].slug = slug

\* table[key] = val
TablePut(table, key, val) ==
    [x \in (DOMAIN table) \cup {key} |-> IF x = key THEN val ELSE table[x]]

\* table[key] on the defaultdict: a missing key is inserted with the default
TableGet(table, key) ==
    IF key \in DOMAIN table
    THEN [val |-> table[key], table |-> table]
    ELSE [val |-> UNKNOWN_CONTACT, table |-> TablePut(table, key, UNKNOWN_CONTACT)]

\* the three assignments of add, in program order
\* s with one leading character c removed, when it starts with c
StripOne(s, c) == IF s # <<>> /\ Head(s) = c THEN Tail(s) ELSE s

\* the three assignments with at most one character removed from the address
UpdateNames_strip_one(table, address, name) ==
    TablePut(TablePut(TablePut(table, address, name),
                      StripOne(address, "+"), name),
             StripOne(address, "1"), name)

UpdateNames(table, address, name) ==
    TablePut(TablePut(TablePut(table, address, name),
                      LStrip(address, "+"), name),
             LStrip(address, "1"), name)

\* add with an unconditional self._item_dict[slug] = new_item: the later
\* record takes the place of the one held for its slug
add_replaces(d, table, new_item) ==
    IF get_slug_raises(new_item)
    THEN [item_dict |-> d, table |-> table, raised |-> TRUE]
    ELSE LET slug == get_slug(new_item)
             stored == IF InDict(d, slug)
                       THEN [i \in DOMAIN d |->
                               IF d[i].slug = slug
                               THEN [slug |-> slug, item |-> new_item] ELSE d[i]]
                       ELSE Append(d, [slug |-> slug, item |-> new_item])
         IN  IF get_address_key_raises(new_item)
             THEN [item_dict |-> stored, table |-> table, raised |-> TRUE]
             ELSE LET address == GetAttr(new_item, get_address_key(new_item)) IN
                  [item_dict |-> stored,
                   table |-> IF address # UNKNOWN_CONTACT
                             THEN UpdateNames(table, address,
                                              GetAttr(new_item, CONTACT_NAME))
                             ELSE table,
                   raised |-> FALSE]

\* add with the contact name recorded before the duplicate test: a record
\* whose slug is held already still writes its name into the table
add_names_duplicates(d, table, new_item) ==
    IF get_slug_raises(new_item)
    THEN [item_dict |-> d, table |-> table, raised |-> TRUE]
    ELSE LET slug == get_slug(new_item)
             stored == IF InDict(d, slug) THEN d
                       ELSE Append(d, [slug |-> slug, item |-> new_item])
         IN  IF get_address_key_raises(new_item)
             THEN [item_dict |-> stored, table |-> table, raised |-> TRUE]
             ELSE LET address == GetAttr(new_item, get_address_key(new_item)) IN
                  [item_dict |-> stored,
                   table |-> IF address # UNKNOWN_CONTACT
                             THEN UpdateNames(table, address,
                                              GetAttr(new_item, CONTACT_NAME))
                             ELSE table,
                   raised |-> FALSE]

\* add that skips a record without address instead of raising
add_skips_no_address(d, table, new_item) ==
    IF get_slug_raises(new_item)
    THEN [item_dict |-> d, table |-> table, raised |-> TRUE]
    ELSE LET slug == get_slug(new_item) IN
         IF InDict(d, slug) \/ get_address_key_raises(new_item)
         THEN [item_dict |-> d, table |-> table, raised |-> FALSE]
         ELSE LET address == GetAttr(new_item, get_address_key(new_item)) IN
              [item_dict |-> Append(d, [slug |-> slug, item |-> new_item]),
               table |-> IF address # UNKNOWN_CONTACT
                         THEN UpdateNames(table, address,
                                          GetAttr(new_item, CONTACT_NAME))
                         ELSE table,
               raised |-> FALSE]

\* add(new_item): the accumulator after the call and whether it raised
add(d, table, new_item) ==
    IF get_slug_raises(new_item)
    THEN [item_dict |-> d, table |-> table, raised |-> TRUE]
    ELSE LET slug == get_slug(new_item) IN
         IF InDict(d, slug)
         THEN [item_dict |-> d, table |-> table, raised |-> FALSE]
         ELSE LET stored == Append(d, [slug |-> slug, item |-> new_item]) IN
              IF get_address_key_raises(new_item)
              THEN [item_dict |-> stored, table |-> table, raised |-> TRUE]
              ELSE LET address == GetAttr(new_item, get_address_key(new_item)) IN
                   IF address # UNKNOWN_CONTACT
                   THEN [item_dict |-> stored,
                         table |-> UpdateNames(table, address,
                                               GetAttr(new_item, CONTACT_NAME)),
                         raised |-> FALSE]
                   ELSE [item_dict |-> stored, table |-> table, raised |-> FALSE]

\* _fix_contact_names from entry i on: the loop over _item_dict.values(); it
\* stops at the first item on which get_address_key raises, the items before
\* it already rewritten
RECURSIVE fix_from(_, _, _)
fix_from(d, table, i) ==
    IF i > Len(d) THEN [item_dict |-> d, table |-> table, raised |-> FALSE]
    ELSE IF GetAttr(d[i].item, CONTACT_NAME) = UNKNOWN_CONTACT
    THEN IF get_address_key_raises(d[i].item)
         THEN [item_dict |-> d, table |-> table, raised |-> TRUE]
         ELSE LET got == TableGet(table, GetAttr(d[i].item, get_address_key(d[i].item)))
              IN  fix_from([d EXCEPT ![i].item = SetAttr(@, CONTACT_NAME, got.val)],
                           got.table, i + 1)
    ELSE fix_from(d, table, i + 1)

\* _fix_contact_names that leaves the loop after the first item
fix_contact_names_first_only(d, table) ==
    IF d = <<>> THEN [item_dict |-> d, table |-> table, raised |-> FALSE]
    ELSE LET r == fix_from(<<d[1]>>, table, 1) IN
         [item_dict |-> r.item_dict \o Tail(d), table |-> r.table, raised |-> r.raised]

\* _fix_contact_names without the test for UNKNOWN_CONTACT: the name of
\* every item is taken from the table
RECURSIVE fix_all_from(_, _, _)
fix_all_from(d, table, i) ==
    IF i > Len(d) THEN [item_dict |-> d, table |-> table, raised |-> FALSE]
    ELSE IF get_address_key_raises(d[i].item)
    THEN [item_dict |-> d, table |-> table, raised |-> TRUE]
    ELSE LET got == TableGet(table, GetAttr(d[i].item, get_address_key(d[i].item)))
         IN  fix_all_from([d EXCEPT ![i].item = SetAttr(@, CONTACT_NAME, got.val)],
                          got.table, i + 1)

fix_contact_names_all(d, table) == fix_all_from(d, table, 1)

fix_contact_names(d, table) == fix_from(d, table, 1)

\* sorted(items, key=date): stable, so equal dates keep their relative order
RECURSIVE InsertByDate(_, _)
InsertByDate(sorted, x) ==
    IF sorted = <<>> THEN <<x>>
    ELSE IF StrLess(GetAttr(x, DATE), GetAttr(Head(sorted), DATE))
    THEN <<x>> \o sorted
    ELSE <<Head(sorted)>> \o InsertByDate(Tail(sorted), x)

\* sorted(..., reverse=True): newest first
RECURSIVE SortedNewestFirst(_)
SortedNewestFirst(items) ==
    IF items = <<>> THEN <<>>
    ELSE LET rest == SortedNewestFirst(Tail(items))
             later == SelectSeq(rest, LAMBDA y :
                          StrLess(GetAttr(Head(items), DATE), GetAttr(y, DATE)))
             other == SelectSeq(rest, LAMBDA y :
                          ~StrLess(GetAttr(Head(items), DATE), GetAttr(y, DATE)))
         IN  later \o <<Head(items)>> \o other

RECURSIVE SortedByDate(_)
SortedByDate(items) ==
    IF items = <<>> THEN <<>>
    ELSE InsertByDate(SortedByDate(SubSeq(items, 1, Len(items) - 1)), items[Len(items)])

Values(d) == [i \in DOMAIN d |-> d[i].item]

\* get_list that hands its records over: _item_dict is empty afterwards
get_list_drains(d, table) ==
    LET fixed == fix_contact_names(d, table) IN
    IF fixed.raised
    THEN [item_dict |-> fixed.item_dict, table |-> fixed.table, raised |-> TRUE,
          list |-> <<>>]
    ELSE [item_dict |-> EmptyDict, table |-> fixed.table, raised |-> FALSE,
          list |-> SortedByDate(Values(fixed.item_dict))]

\* get_list without the sort: the records in the order they are held
get_list_unsorted(d, table) ==
    LET fixed == fix_contact_names(d, table) IN
    [item_dict |-> fixed.item_dict, table |-> fixed.table, raised |-> fixed.raised,
     list |-> IF fixed.raised THEN <<>> ELSE Values(fixed.item_dict)]

\* get_list(): the accumulator after the call, whether it raised, the list returned
get_list(d, table) ==
    LET fixed == fix_contact_names(d, table) IN
    IF fixed.raised
    THEN [item_dict |-> fixed.item_dict, table |-> fixed.table, raised |-> TRUE,
          list |-> <<>>]
    ELSE [item_dict |-> fixed.item_dict, table |-> fixed.table, raised |-> FALSE,
          list |-> SortedByDate(Values(fixed.item_dict))]

\* ------------------------------------------------------------------------
\* Input records
\* ------------------------------------------------------------------------
ALICE == <<"A", "l", "i", "c", "e">>

BOB == <<"B", "o", "b">>

ADDR_PLUS == <<"+", "1", "5", "5", "5", "1", "2", "3", "4", "5", "6", "7">>

ADDR_ONE == <<"1", "5", "5", "5", "1", "2", "3", "4", "5", "6", "7">>

Addresses == {ADDR_PLUS, ADDR_ONE}

Names == {UNKNOWN_CONTACT, ALICE, BOB}

Dates == {<<"9">>, <<"1", "0">>}

\* a record as the app writes it: address, date, readable_date, contact_name
MkItem(address_key, address, date, readable, name) ==
    << Attr(address_key, address), Attr(DATE, date),
       Attr(READABLE_DATE, readable), Attr(CONTACT_NAME, name) >>

\* call records of a first export, and the records of one number and date as a
\* second export wrote them, with another readable_date
WellFormedItems ==
    { MkItem("number", a, d, <<"M", "o", "n">>, n) :
        a \in Addresses, d \in Dates, n \in Names }
    \cup { MkItem("number", ADDR_ONE, <<"9">>, <<"T", "u", "e">>, n) : n \in Names }

\* a message record: its address is under the key "address"
AddressKeyItems == { MkItem("address", ADDR_ONE, <<"9">>, <<"M", "o", "n">>, ALICE) }

\* a record whose address is the text (Unknown)
UnknownAddressItems ==
    { MkItem("number", UNKNOWN_CONTACT, <<"9">>, <<"M", "o", "n">>, ALICE) }

\* the same attributes as a well-formed record, listed in another order
ReorderedItems ==
    { << Attr(DATE, <<"9">>), Attr("number", ADDR_ONE),
         Attr(READABLE_DATE, <<"M", "o", "n">>), Attr(CONTACT_NAME, ALICE) >> }

\* records that lack number and address, or contact_name
NoAddressItems ==
    { << Attr(DATE, <<"9">>), Attr(READABLE_DATE, <<"M", "o", "n">>),
         Attr(CONTACT_NAME, n) >> : n \in {UNKNOWN_CONTACT, ALICE} }

NoContactNameItems ==
    { << Attr("number", ADDR_ONE), Attr(DATE, <<"9">>),
         Attr(READABLE_DATE, <<"M", "o", "n">>) >> }

Items ==
    WellFormedItems \cup AddressKeyItems \cup UnknownAddressItems \cup ReorderedItems
        \cup NoAddressItems \cup NoContactNameItems

\* the number of add calls made on one accumulator through its interface
MaxAdds == 3

\* call records of one date whose numbers start with several '+' or '1'
KeyAddresses ==
    { <<"1", "1", "5", "5">>, <<"+", "+", "1">>, <<"+", "1">>,
      <<"1", "5", "5">>, <<"1">> }

KeyItems ==
    { MkItem("number", a, <<"9">>, <<"M", "o", "n">>, n) :
        a \in KeyAddresses, n \in {ALICE, BOB} }

\* the number of add calls made with such records
MaxKeyAdds == 2

\* ------------------------------------------------------------------------
\* BackupType, render_from_list, and the input directory of a run
\* ------------------------------------------------------------------------
BackupType == {"Calls", "SMS"}

get_root_xml_tag(t) == IF t = "Calls" THEN "calls" ELSE "smses"

\* render_from_list whose count is one more than the number of items
render_from_list_counts_root(t, items, backup_set) ==
    [ tag         |-> get_root_xml_tag(t),
      backup_set  |-> backup_set,
      backup_date |-> "time",
      type        |-> "incremental",
      count       |-> StrInt(Len(items) + 1),
      children    |-> items ]

\* the document render_from_list writes; backup_set is the run's uuid4 and
\* backup_date the clock, both opaque here
render_from_list(t, items, backup_set) ==
    [ tag         |-> get_root_xml_tag(t),
      backup_set  |-> backup_set,
      backup_date |-> "time",
      type        |-> "incremental",
      count       |-> StrInt(Len(items)),
      children    |-> items ]

NoFile == [tag |-> "none"]

\* all_calls / all_sms before the assignment: a list no get_list returns
NoList == << <<Attr("unassigned", <<>>)>> >>

\* the records found in calls-*.xml files and in sms-*.xml files
CallItems ==
    { MkItem("number", ADDR_ONE, <<"9">>, <<"M", "o", "n">>, UNKNOWN_CONTACT),
      MkItem("number", ADDR_ONE, <<"9">>, <<"T", "u", "e">>, ALICE),
      MkItem("number", ADDR_PLUS, <<"1", "0">>, <<"M", "o", "n">>, BOB),
      << Attr(DATE, <<"9">>), Attr(READABLE_DATE, <<"M", "o", "n">>),
         Attr(CONTACT_NAME, UNKNOWN_CONTACT) >> }

SmsItems ==
    { MkItem("address", ADDR_ONE, <<"9">>, <<"M", "o", "n">>, ALICE),
      MkItem("address", ADDR_PLUS, <<"1", "0">>, <<"M", "o", "n">>, UNKNOWN_CONTACT),
      << Attr(DATE, <<"9">>), Attr(READABLE_DATE, <<"M", "o", "n">>),
         Attr(CONTACT_NAME, UNKNOWN_CONTACT) >> }

\* a file is the sequence of its root's children
FilePool(t) ==
    IF t = "Calls"
    THEN { <<a>> : a \in CallItems }
         \cup UNION { { <<a, b>> : b \in CallItems \ {a} } : a \in CallItems }
    ELSE { <<a>> : a \in SmsItems }

\* the number of files of one backup type in the input directory
MaxFiles == 2

InputDirs ==
    [ BackupType -> UNION { { fs \in SUBSET FilePool(t) : Cardinality(fs) <= MaxFiles }
                            : t \in BackupType } ]

\* the add calls of the loader on the children of the files, in the order the
\* files are given; the loop ends at the first add that raises
RECURSIVE add_all(_, _, _)
add_all(d, table, items) ==
    IF items = <<>> THEN [item_dict |-> d, table |-> table, raised |-> FALSE]
    ELSE LET r == add(d, table, Head(items)) IN
         IF r.raised THEN r ELSE add_all(r.item_dict, r.table, Tail(items))

RECURSIVE Flatten(_)
Flatten(files) == IF files = <<>> THEN <<>> ELSE Head(files) \o Flatten(Tail(files))

\* get_ordered_list_of_items over the files as the glob yields them: whether
\* it raised and the list it returns
get_ordered_list_of_items(files) ==
    LET loaded == add_all(EmptyDict, EmptyTable, Flatten(files)) IN
    IF loaded.raised THEN [raised |-> TRUE, list |-> <<>>]
    ELSE LET r == get_list(loaded.item_dict, loaded.table) IN
         [raised |-> r.raised, list |-> r.list]

\* the orders in which a glob can yield a set of files
GlobOrders(files) ==
    { order \in [1 .. Cardinality(files) -> files] :
        \A i, j \in DOMAIN order : order[i] = order[j] => i = j }

\* ------------------------------------------------------------------------
\* State
\* ------------------------------------------------------------------------
VARIABLES
    item_dict,                  \* self._item_dict
    number_to_contact_name,     \* self._number_to_contact_name
    returned,                   \* the list the last get_list returned
    last_call,                  \* the last call: its name, argument, outcome
    n_add,                      \* add calls made on the accumulator so far
    pc,                         \* where the main script is
    typ,                        \* the BackupType of the pass in progress
    input_dir,                  \* BackupType -> the files matching its glob
    files_left,                 \* files the glob has not yielded yet
    children,                   \* children of the current root still to add
    all_items,                  \* all_calls / all_sms once assigned
    written                     \* BackupType -> the output file written

acc_vars == <<item_dict, number_to_contact_name, returned, last_call, n_add>>

run_vars == <<pc, typ, input_dir, files_left, children, all_items, written>>

vars == <<item_dict, number_to_contact_name, returned, last_call, n_add,
          pc, typ, input_dir, files_left, children, all_items, written>>

\* again: the call before it was a get_list too, with no add in between
NoCall == [op |-> "none", item |-> <<>>, raised |-> FALSE, again |-> FALSE]

\* __init__
NewAccumulator ==
    /\ item_dict = EmptyDict
    /\ number_to_contact_name = EmptyTable
    /\ returned = <<>>
    /\ last_call = NoCall
    /\ n_add = 0

\* ------------------------------------------------------------------------
\* One BackupRestoreItems object used through its interface
\* ------------------------------------------------------------------------
Init ==
    /\ NewAccumulator
    /\ pc = "interface"
    /\ typ = "Calls"
    /\ input_dir = [t \in BackupType |-> {}]
    /\ files_left = {}
    /\ children = <<>>
    /\ all_items = [t \in BackupType |-> NoList]
    /\ written = [t \in BackupType |-> NoFile]

Add ==
    /\ pc = "interface"
    /\ n_add < MaxAdds
    /\ \E new_item \in Items :
         LET r == add(item_dict, number_to_contact_name, new_item) IN
         /\ item_dict' = r.item_dict
         /\ number_to_contact_name' = r.table
         /\ last_call' = [op |-> "add", item |-> new_item, raised |-> r.raised,
                         again |-> FALSE]
    /\ n_add' = n_add + 1
    /\ UNCHANGED returned
    /\ UNCHANGED run_vars

GetList ==
    /\ pc = "interface"
    /\ LET r == get_list(item_dict, number_to_contact_name) IN
         /\ item_dict' = r.item_dict
         /\ number_to_contact_name' = r.table
         /\ returned' = IF r.raised THEN returned ELSE r.list
         /\ last_call' = [op |-> "get_list", item |-> <<>>, raised |-> r.raised,
                         again |-> last_call.op = "get_list"]
    /\ UNCHANGED n_add
    /\ UNCHANGED run_vars

Next == Add \/ GetList

Spec == Init /\ [][Next]_vars

\* add calls with records whose numbers start with several '+' or '1'
AddKey ==
    /\ pc = "interface"
    /\ n_add < MaxKeyAdds
    /\ \E new_item \in KeyItems :
         LET r == add(item_dict, number_to_contact_name, new_item) IN
         /\ item_dict' = r.item_dict
         /\ number_to_contact_name' = r.table
         /\ last_call' = [op |-> "add", item |-> new_item, raised |-> r.raised,
                         again |-> FALSE]
    /\ n_add' = n_add + 1
    /\ UNCHANGED returned
    /\ UNCHANGED run_vars

NextKeys == AddKey \/ GetList

SpecKeys == Init /\ [][NextKeys]_vars

\* ------------------------------------------------------------------------
\* The main script: a Calls pass, then an SMS pass
\* ------------------------------------------------------------------------
InitRun ==
    /\ NewAccumulator
    /\ pc = "get_ordered_list_of_items"
    /\ typ = "Calls"
    /\ input_dir \in InputDirs
    /\ \A t \in BackupType : input_dir[t] \subseteq FilePool(t)
    /\ files_left = {}
    /\ children = <<>>
    /\ all_items = [t \in BackupType |-> NoList]
    /\ written = [t \in BackupType |-> NoFile]

\* item_list = BackupRestoreItems(); the glob is started
BeginPass ==
    /\ pc = "get_ordered_list_of_items"
    /\ item_dict' = EmptyDict
    /\ number_to_contact_name' = EmptyTable
    /\ returned' = <<>>
    /\ last_call' = NoCall
    /\ n_add' = 0
    /\ files_left' = input_dir[typ]
    /\ pc' = "glob"
    /\ UNCHANGED <<typ, input_dir, children, all_items, written>>

\* the glob yields the next file, in an order the file system decides
GlobNext ==
    /\ pc = "glob"
    /\ \E file \in files_left :
         /\ files_left' = files_left \ {file}
         /\ children' = file
         /\ pc' = IF file = <<>> THEN "glob" ELSE "children"
    /\ UNCHANGED acc_vars
    /\ UNCHANGED <<typ, input_dir, all_items, written>>

\* item_list.add(child); a KeyError ends the process
AddChild ==
    /\ pc = "children"
    /\ LET r == add(item_dict, number_to_contact_name, Head(children)) IN
         /\ item_dict' = r.item_dict
         /\ number_to_contact_name' = r.table
         /\ last_call' = [op |-> "add", item |-> Head(children), raised |-> r.raised,
                         again |-> FALSE]
         /\ pc' = IF r.raised THEN "aborted"
                  ELSE IF Tail(children) = <<>> THEN "glob" ELSE "children"
    /\ children' = Tail(children)
    /\ n_add' = n_add + 1
    /\ UNCHANGED returned
    /\ UNCHANGED <<typ, input_dir, files_left, all_items, written>>

\* return item_list.get_list(), assigned to all_calls / all_sms
ReturnList ==
    /\ pc = "glob"
    /\ files_left = {}
    /\ LET r == get_list(item_dict, number_to_contact_name) IN
         /\ item_dict' = r.item_dict
         /\ number_to_contact_name' = r.table
         /\ returned' = IF r.raised THEN returned ELSE r.list
         /\ last_call' = [op |-> "get_list", item |-> <<>>, raised |-> r.raised,
                         again |-> last_call.op = "get_list"]
         /\ all_items' = IF r.raised THEN all_items
                         ELSE [all_items EXCEPT ![typ] = r.list]
         /\ pc' = IF r.raised THEN "aborted" ELSE "render_from_list"
    /\ UNCHANGED <<n_add, typ, input_dir, files_left, children, written>>

\* a main script that writes both files after both passes have succeeded
RenderAfterBothPasses ==
    /\ pc = "render_from_list"
    /\ IF typ = "Calls"
       THEN /\ written' = written
            /\ typ' = "SMS"
            /\ pc' = "get_ordered_list_of_items"
       ELSE /\ written' = [t \in BackupType |->
                              render_from_list(t, all_items[t], "uuid4")]
            /\ typ' = typ
            /\ pc' = "done"
    /\ UNCHANGED acc_vars
    /\ UNCHANGED <<input_dir, files_left, children, all_items>>

\* render_from_list(typ, all_items, output_dir, backup_set), then the next pass
Render ==
    /\ pc = "render_from_list"
    /\ written' = [written EXCEPT ![typ] = render_from_list(typ, all_items[typ], "uuid4")]
    /\ IF typ = "Calls"
       THEN typ' = "SMS" /\ pc' = "get_ordered_list_of_items"
       ELSE typ' = typ /\ pc' = "done"
    /\ UNCHANGED acc_vars
    /\ UNCHANGED <<input_dir, files_left, children, all_items>>

NextRun == BeginPass \/ GlobNext \/ AddChild \/ ReturnList \/ Render

SpecRun == InitRun /\ [][NextRun]_vars

\* ------------------------------------------------------------------------
\* Properties
\* ------------------------------------------------------------------------
NameOf(item) == GetAttr(item, CONTACT_NAME)

AddressOf(item) == GetAttr(item, get_address_key(item))

IsIgnored(key) == \E i \in DOMAIN FIELDS_TO_IGNORE : FIELDS_TO_IGNORE[i] = key

\* the two records list the same attributes in the same order and agree on
\* every value but those of readable_date and contact_name
SameExceptIgnored(a, b) ==
    /\ Len(a) = Len(b)
    /\ \A i \in DOMAIN a :
         /\ a[i].k = b[i].k
         /\ ~IsIgnored(a[i].k) => a[i].v = b[i].v

KeysOf(a) == { a[i].k : i \in DOMAIN a }

\* some attribute other than readable_date and contact_name is in one record
\* only, or has different values in the two
DifferElsewhere(a, b) ==
    \E key \in KeysOf(a) \cup KeysOf(b) :
        /\ ~IsIgnored(key)
        /\ \/ HasKey(a, key) # HasKey(b, key)
           \/ HasKey(a, key) /\ HasKey(b, key) /\ GetAttr(a, key) # GetAttr(b, key)

\* an add call returned or raised after computing the slug of its argument
AddedItem == last_call.op = "add" /\ ~get_slug_raises(last_call.item)

\* get_list returned a list
ListReturned == last_call.op = "get_list" /\ ~last_call.raised

\* C1: after any sequence of add calls the item map holds at most one record
\* per fingerprint, and an add call leaves every record already held as it
\* is, contact_name and readable_date included: it only ever appends its
\* argument, under a fingerprint not held before.
C1_FirstSeenWins ==
    /\ [](\A i, j \in DOMAIN item_dict :
             item_dict[i].slug = item_dict[j].slug => i = j)
    /\ [][last_call'.op = "add" =>
            /\ Len(item_dict') >= Len(item_dict)
            /\ \A i \in DOMAIN item_dict : item_dict'[i] = item_dict[i]
            /\ Len(item_dict') > Len(item_dict) =>
                 /\ Len(item_dict') = Len(item_dict) + 1
                 /\ ~InDict(item_dict, get_slug(last_call'.item))
                 /\ item_dict'[Len(item_dict')] =
                        [slug |-> get_slug(last_call'.item), item |-> last_call'.item]
       ]_vars

\* a record was added whose fingerprint was held already, by a record with
\* another contact_name and another readable_date, which is still held
C1_Witness ==
    /\ AddedItem
    /\ ~last_call.raised
    /\ \E i \in DOMAIN item_dict :
         /\ item_dict[i].slug = get_slug(last_call.item)
         /\ NameOf(item_dict[i].item) # NameOf(last_call.item)
         /\ GetAttr(item_dict[i].item, READABLE_DATE)
                # GetAttr(last_call.item, READABLE_DATE)

ListName(list, slug) ==
    NameOf(list[CHOOSE j \in DOMAIN list : get_slug(list[j]) = slug])

\* the value the table gives for a key, the default when it holds none
Lookup(table, key) == IF key \in DOMAIN table THEN table[key] ELSE UNKNOWN_CONTACT

\* a record with a known contact name was just added whose fingerprint is
\* held by a record whose contact_name is the sentinel
KnownDuplicateOfUnknown ==
    /\ AddedItem
    /\ ~last_call.raised
    /\ NameOf(last_call.item) # UNKNOWN_CONTACT
    /\ \E i \in DOMAIN item_dict :
         /\ item_dict[i].slug = get_slug(last_call.item)
         /\ NameOf(item_dict[i].item) = UNKNOWN_CONTACT

\* C3 as stated: when a record with the sentinel was added first and a
\* record with the same fingerprint and a known name later, the record
\* retained has the known name in the list get_list returns.
C3_Original ==
    KnownDuplicateOfUnknown =>
        LET r == get_list(item_dict, number_to_contact_name) IN
        ~r.raised => ListName(r.list, get_slug(last_call.item)) = NameOf(last_call.item)

\* C3 amended: in that case the later record is ignored, its name never
\* enters the table; the retained record's contact_name in the list is the
\* table's value for its address when get_list runs, the sentinel when the
\* table holds none, and it is the later record's name only if a record held
\* under some fingerprint carries that name.
C3_DuplicateNameIgnored ==
    KnownDuplicateOfUnknown =>
        LET r == get_list(item_dict, number_to_contact_name)
            slug == get_slug(last_call.item)
        IN  ~r.raised =>
              /\ ListName(r.list, slug)
                    = Lookup(number_to_contact_name, AddressOf(last_call.item))
              /\ ListName(r.list, slug) = NameOf(last_call.item) =>
                    \E i \in DOMAIN item_dict :
                        NameOf(item_dict[i].item) = NameOf(last_call.item)

\* the sentinel record and then its duplicate named Bob were added, nothing
\* else is held, and get_list leaves the retained record with the sentinel
C3_Witness ==
    /\ KnownDuplicateOfUnknown
    /\ NameOf(last_call.item) = BOB
    /\ Len(item_dict) = 1
    /\ LET r == get_list(item_dict, number_to_contact_name) IN
         /\ ~r.raised
         /\ ListName(r.list, get_slug(last_call.item)) = UNKNOWN_CONTACT

\* records A (address +15551234567, Alice) and B (address 15551234567,
\* sentinel) are the two records held, no list has been returned yet
BackfillPair ==
    /\ Len(item_dict) = 2
    /\ returned = <<>>
    /\ \E i, j \in DOMAIN item_dict :
         /\ ~get_address_key_raises(item_dict[i].item)
         /\ ~get_address_key_raises(item_dict[j].item)
         /\ AddressOf(item_dict[i].item) = ADDR_PLUS
         /\ NameOf(item_dict[i].item) = ALICE
         /\ AddressOf(item_dict[j].item) = ADDR_ONE
         /\ NameOf(item_dict[j].item) = UNKNOWN_CONTACT

\* C4 as stated: with A and B added in either order, B has contact_name
\* Alice in the list get_list returns.
C4_NameBackfill ==
    BackfillPair =>
        LET r == get_list(item_dict, number_to_contact_name) IN
        /\ ~r.raised
        /\ \A j \in DOMAIN r.list :
             AddressOf(r.list[j]) = ADDR_ONE => NameOf(r.list[j]) = ALICE

\* C5 as stated: an add call whose record has the sentinel as contact_name
\* leaves every entry of the table unchanged, and an add call that stores a
\* record with a known contact name (and an address that is not itself the
\* text of the sentinel) writes that name under the record's address.
C5_UnknownLeavesTable ==
    [][last_call'.op = "add" /\ ~get_slug_raises(last_call'.item) =>
         IF NameOf(last_call'.item) = UNKNOWN_CONTACT
         THEN number_to_contact_name' = number_to_contact_name
         ELSE (/\ Len(item_dict') > Len(item_dict)
               /\ ~last_call'.raised
               /\ AddressOf(last_call'.item) # UNKNOWN_CONTACT) =>
                 Lookup(number_to_contact_name', AddressOf(last_call'.item))
                     = NameOf(last_call'.item)
      ]_vars

\* C6 as stated: after get_list has run, every held record whose
\* contact_name is still the sentinel has an address for which the table
\* holds no entry.
C6_Original ==
    ListReturned =>
        \A i \in DOMAIN item_dict :
            NameOf(item_dict[i].item) = UNKNOWN_CONTACT =>
                AddressOf(item_dict[i].item) \notin DOMAIN number_to_contact_name

\* C6 amended: after get_list has returned, every held record whose
\* contact_name is still the sentinel has an address, and the table holds an
\* entry for that address whose value is the sentinel; so whenever the table
\* holds a known name for a record's address, the record's contact_name is
\* not the sentinel.
C6_UnknownOnlyIfTableUnknown ==
    ListReturned =>
        \A i \in DOMAIN item_dict :
            NameOf(item_dict[i].item) = UNKNOWN_CONTACT =>
                /\ ~get_address_key_raises(item_dict[i].item)
                /\ AddressOf(item_dict[i].item) \in DOMAIN number_to_contact_name
                /\ number_to_contact_name[AddressOf(item_dict[i].item)]
                       = UNKNOWN_CONTACT

\* get_list returned a list in which the second record held still has the
\* sentinel while the table holds a known name for another address
C6_Witness ==
    /\ ListReturned
    /\ Len(item_dict) >= 2
    /\ NameOf(item_dict[2].item) = UNKNOWN_CONTACT
    /\ \E key \in DOMAIN number_to_contact_name :
         number_to_contact_name[key] # UNKNOWN_CONTACT

\* C7: the list get_list returns holds every held record exactly once and
\* is non-decreasing by the date attribute compared as a string.
C7_SortedByDate ==
    ListReturned =>
        /\ Len(returned) = Len(item_dict)
        /\ \A i \in DOMAIN item_dict :
             Cardinality({ j \in DOMAIN returned : returned[j] = item_dict[i].item }) = 1
        /\ \A i, j \in DOMAIN returned :
             i < j => ~StrLess(GetAttr(returned[j], DATE), GetAttr(returned[i], DATE))

\* three records were added newest first and get_list returned them in
\* another order than they are held in
C7_Witness ==
    /\ ListReturned
    /\ Len(returned) = 3
    /\ returned # Values(item_dict)
    /\ GetAttr(returned[1], DATE) # GetAttr(returned[3], DATE)

\* C8: a get_list call that follows a get_list call that returned, with no
\* add in between, returns too, returns the same list with the same
\* contact names, and leaves every held record as it was.
C8_GetListIdempotent ==
    [][(last_call.op = "get_list" /\ ~last_call.raised /\ last_call'.op = "get_list") =>
          /\ ~last_call'.raised
          /\ returned' = returned
          /\ item_dict' = item_dict
      ]_vars

\* get_list was called twice in a row and returned two records, one with a
\* known name and one with the sentinel
C8_Witness ==
    /\ ListReturned
    /\ last_call.again
    /\ Len(returned) >= 2
    /\ \E i \in DOMAIN returned : NameOf(returned[i]) # UNKNOWN_CONTACT
    /\ \E i \in DOMAIN returned : NameOf(returned[i]) = UNKNOWN_CONTACT

\* int(s) of a string of decimal digits
RECURSIVE StrToInt(_)
StrToInt(s) ==
    IF s = <<>> THEN 0
    ELSE 10 * StrToInt(SubSeq(s, 1, Len(s) - 1)) + (Ord(s[Len(s)]) - Ord("0"))

\* C9: in every output document written, the root's count attribute read as
\* a number is the number of children of the root, which is the length of
\* the list get_list returned for that backup type.
C9_CountMatches ==
    \A t \in BackupType :
        written[t] # NoFile =>
            /\ StrToInt(written[t].count) = Len(written[t].children)
            /\ all_items[t] # NoList
            /\ Len(written[t].children) = Len(all_items[t])

\* both files are written; the calls file holds two records, fewer than the
\* input files of the type held
C9_Witness ==
    /\ pc = "done"
    /\ written["Calls"] # NoFile
    /\ written["Calls"].count = <<"2">>
    /\ Len(written["Calls"].children) = 2
    /\ Cardinality(input_dir["Calls"]) = 2
    /\ \A file \in input_dir["Calls"] : Len(file) = 2
    /\ written["SMS"] # NoFile
    /\ written["SMS"].count = <<"1">>

\* some input record of the backup type has neither number nor address
LacksAddress(t) ==
    \E file \in input_dir[t] : \E i \in DOMAIN file : get_address_key_raises(file[i])

\* C10: when an input record of a backup type has neither number nor
\* address, the add call that processes it raises and the run ends there,
\* and no output file is ever written for that type: get_list does not
\* return for it and the run does not complete.
C10_MissingAddressAborts ==
    /\ \A t \in BackupType :
         LacksAddress(t) =>
            /\ written[t] = NoFile
            /\ all_items[t] = NoList
            /\ pc # "done"
            /\ ~(typ = t /\ pc = "render_from_list")
    /\ (last_call.op = "add" /\ get_address_key_raises(last_call.item)) =>
            last_call.raised /\ pc = "aborted"
    /\ pc = "aborted" =>
            /\ last_call.op = "add"
            /\ last_call.raised
            /\ written[typ] = NoFile

\* the calls pass ended in add on a record without address, after another
\* record of another file had been stored
C10_Witness ==
    /\ pc = "aborted"
    /\ typ = "Calls"
    /\ LacksAddress("Calls")
    /\ get_address_key_raises(last_call.item)
    /\ Len(item_dict) >= 2
    /\ files_left # {}
    /\ written["Calls"] = NoFile

\* C11 as stated: when the run ends on a malformed record, of either backup
\* type, no output file at all has been written.
C11_NoOutputAtAll ==
    pc = "aborted" => \A t \in BackupType : written[t] = NoFile

\* C11 amended: when the run ends on a malformed record, no file has been
\* written for the backup type of that record nor for a type processed after
\* it; the files of the types processed before it have been written: the
\* calls file is there, complete, when the malformed record is an SMS record.
C11_NoOutputFromFailedPassOn ==
    pc = "aborted" =>
        /\ written[typ] = NoFile
        /\ typ = "Calls" => written["SMS"] = NoFile
        /\ typ = "SMS" =>
             /\ written["Calls"] # NoFile
             /\ written["Calls"].children = all_items["Calls"]

\* the run ended on an SMS record without address with the calls file,
\* holding a record, written
C11_Witness ==
    /\ pc = "aborted"
    /\ typ = "SMS"
    /\ get_address_key_raises(last_call.item)
    /\ written["Calls"] # NoFile
    /\ Len(written["Calls"].children) >= 1
    /\ written["SMS"] = NoFile

SlugsOf(list) == { get_slug(list[i]) : i \in DOMAIN list }

DatesOf(list) == [i \in DOMAIN list |-> GetAttr(list[i], DATE)]

\* C12 as stated: the list a pass returns (the records with all their
\* attribute values, their number and their order) is the list the pass
\* returns over the same files in any other order of enumeration.
C12_SameOutputAnyOrder ==
    pc = "render_from_list" =>
        \A order \in GlobOrders(input_dir[typ]) :
            LET other == get_ordered_list_of_items(order) IN
            ~other.raised /\ other.list = all_items[typ]

\* C12 amended: over the same files in any order of enumeration a pass
\* returns the same number of records, with the same fingerprints and the
\* same sequence of dates, and a pass that raises raises in every order; the
\* contact_name and readable_date of a record, and the order among records
\* of equal date, may differ.
C12_SameFingerprintsAnyOrder ==
    /\ pc = "render_from_list" =>
         \A order \in GlobOrders(input_dir[typ]) :
             LET other == get_ordered_list_of_items(order) IN
             /\ ~other.raised
             /\ Len(other.list) = Len(all_items[typ])
             /\ SlugsOf(other.list) = SlugsOf(all_items[typ])
             /\ DatesOf(other.list) = DatesOf(all_items[typ])
    /\ pc = "aborted" =>
         \A order \in GlobOrders(input_dir[typ]) :
             get_ordered_list_of_items(order).raised

\* the calls pass returned two records from two files, and over the files
\* in the other order it returns a list with other attribute values
C12_Witness ==
    /\ pc = "render_from_list"
    /\ typ = "Calls"
    /\ Cardinality(input_dir["Calls"]) = 2
    /\ Len(all_items["Calls"]) = 2
    /\ \E order \in GlobOrders(input_dir["Calls"]) :
         get_ordered_list_of_items(order).list # all_items["Calls"]

\* the step is an add call that stored its record and wrote its name
AddUpdatesTable ==
    /\ last_call'.op = "add"
    /\ ~last_call'.raised
    /\ Len(item_dict') = Len(item_dict) + 1
    /\ AddressOf(last_call'.item) # UNKNOWN_CONTACT

\* the table after the step has name under the keys in written and is the
\* table before the step at every other key
TableStep(written_keys, name) ==
    /\ DOMAIN number_to_contact_name' = DOMAIN number_to_contact_name \cup written_keys
    /\ \A k \in DOMAIN number_to_contact_name' :
         number_to_contact_name'[k] =
             IF k \in written_keys THEN name ELSE number_to_contact_name[k]

\* k is s without its leading run of the character c
WithoutLeading(s, c, k) ==
    \E n \in 0 .. Len(s) :
        /\ k = SubSeq(s, n + 1, Len(s))
        /\ \A i \in 1 .. n : s[i] = c
        /\ n < Len(s) => s[n + 1] # c

\* C13 as stated: an add that updates the table for a record with address a
\* writes the name under a, a without at most one leading '+' and a without
\* at most one leading '1', and changes no other key.
C13_StripsAtMostOne ==
    [][AddUpdatesTable =>
         LET a == AddressOf(last_call'.item) IN
         TableStep({a, StripOne(a, "+"), StripOne(a, "1")}, NameOf(last_call'.item))
      ]_vars

\* C13 amended: an add that updates the table for a record with address a
\* writes the name under a, a without all its leading '+' characters and a
\* without all its leading '1' characters, and changes no other key.
C13_StripsEveryLeading ==
    [][AddUpdatesTable =>
         LET a == AddressOf(last_call'.item)
             suffixes == { SubSeq(a, n + 1, Len(a)) : n \in 0 .. Len(a) }
         IN  TableStep({a} \cup { k \in suffixes : WithoutLeading(a, "+", k)
                                                  \/ WithoutLeading(a, "1", k) },
                       NameOf(last_call'.item))
      ]_vars

\* add of a record with number "1155" wrote the key "55" and not "155"
C13_Witness ==
    /\ last_call.op = "add"
    /\ ~last_call.raised
    /\ AddressOf(last_call.item) = <<"1", "1", "5", "5">>
    /\ DOMAIN number_to_contact_name = { <<"1", "1", "5", "5">>, <<"5", "5">> }
    /\ number_to_contact_name[<<"5", "5">>] = NameOf(last_call.item)

\* the three keys add writes for an address
KeyVariants(a) == {a, LStrip(a, "+"), LStrip(a, "1")}

\* only add calls have been made, none of them raised on the address key:
\* the records held are the non-duplicate records added, in the order added
OnlyAdds ==
    /\ returned = <<>>
    /\ \A i \in DOMAIN item_dict : ~get_address_key_raises(item_dict[i].item)

\* the positions of the held records that satisfy wrote and have k among
\* their key variants
WritersOf(k, wrote(_)) ==
    { i \in DOMAIN item_dict :
        wrote(item_dict[i].item) /\ k \in KeyVariants(AddressOf(item_dict[i].item)) }

LastWriterName(writers) ==
    NameOf(item_dict[CHOOSE i \in writers : \A j \in writers : j <= i].item)

HasKnownName(item) == NameOf(item) # UNKNOWN_CONTACT

HasKnownAddress(item) == AddressOf(item) # UNKNOWN_CONTACT

\* C14 as stated: after any sequence of add calls, the value of every key k
\* of the table is the contact name of the most recently added non-duplicate
\* record with a known contact name whose three key variants include k.
C14_LastKnownNameWins ==
    OnlyAdds =>
        \A k \in DOMAIN number_to_contact_name :
            LET writers == WritersOf(k, HasKnownName) IN
            /\ writers # {}
            /\ number_to_contact_name[k] = LastWriterName(writers)

\* what the code does instead: the last non-duplicate record whose address
\* is not the text (Unknown) wins, whatever its contact name
C14_LastAddressedRecordWins ==
    OnlyAdds =>
        \A k \in DOMAIN number_to_contact_name :
            LET writers == WritersOf(k, HasKnownAddress) IN
            /\ writers # {}
            /\ number_to_contact_name[k] = LastWriterName(writers)

\* the record passed to add has a slug that is held already
AddsDuplicate ==
    /\ last_call'.op = "add"
    /\ ~get_slug_raises(last_call'.item)
    /\ InDict(item_dict, get_slug(last_call'.item))

\* C15: add of a record whose fingerprint is already in the item map
\* changes neither the item map nor the table and does not raise, also when
\* the record carries a contact name or an address key the table lacks.
C15_DuplicateIgnoredEntirely ==
    [][AddsDuplicate =>
         /\ item_dict' = item_dict
         /\ number_to_contact_name' = number_to_contact_name
         /\ ~last_call'.raised
      ]_vars

\* the last add passed a duplicate that differs from the record held for
\* its slug and whose known contact name is no value of the table
C15_Witness ==
    /\ last_call.op = "add"
    /\ ~get_slug_raises(last_call.item)
    /\ ~get_address_key_raises(last_call.item)
    /\ NameOf(last_call.item) # UNKNOWN_CONTACT
    /\ AddressOf(last_call.item) # UNKNOWN_CONTACT
    /\ \E i \in DOMAIN item_dict :
         /\ item_dict[i].slug = get_slug(last_call.item)
         /\ item_dict[i].item # last_call.item
    /\ \A k \in DOMAIN number_to_contact_name :
         number_to_contact_name[k] # NameOf(last_call.item)

\* the keys of a record in the order they appear
KeySeq(item) == [j \in DOMAIN item |-> item[j].k]

\* C16: get_list adds or removes no held record, changes no attribute other
\* than contact_name (so no fingerprint), and changes contact_name only on
\* records whose contact_name was the sentinel.
C16_GetListChangesOnlyUnknownNames ==
    [][last_call'.op = "get_list" =>
         /\ Len(item_dict') = Len(item_dict)
         /\ \A i \in DOMAIN item_dict :
              /\ item_dict'[i].slug = item_dict[i].slug
              /\ get_slug(item_dict'[i].item) = get_slug(item_dict[i].item)
              /\ KeySeq(item_dict'[i].item) = KeySeq(item_dict[i].item)
              /\ Pop(item_dict'[i].item, CONTACT_NAME)
                     = Pop(item_dict[i].item, CONTACT_NAME)
              /\ NameOf(item_dict[i].item) # UNKNOWN_CONTACT =>
                     item_dict'[i].item = item_dict[i].item
      ]_vars

\* get_list returned with two records held: the first, at 15551234567, was
\* added with the sentinel (the key 5551234567 only it wrote still holds the
\* sentinel) and is now named Alice, the second is the record at
\* +15551234567 that brought the name
C16_Witness ==
    /\ ListReturned
    /\ Len(item_dict) = 2
    /\ \A i \in DOMAIN item_dict : ~get_address_key_raises(item_dict[i].item)
    /\ AddressOf(item_dict[1].item) = ADDR_ONE
    /\ NameOf(item_dict[1].item) = ALICE
    /\ AddressOf(item_dict[2].item) = ADDR_PLUS
    /\ NameOf(item_dict[2].item) = ALICE
    /\ LStrip(ADDR_ONE, "1") \in DOMAIN number_to_contact_name
    /\ number_to_contact_name[LStrip(ADDR_ONE, "1")] = UNKNOWN_CONTACT

\* C17 as stated: in the list get_list returns, the date of every record
\* read as a non-negative integer is at most the date of every record after
\* it, also when the digit strings differ in length.
C17_NumericDateOrder ==
    ListReturned =>
        \A i, j \in DOMAIN returned :
            i < j => StrToInt(GetAttr(returned[i], DATE))
                         <= StrToInt(GetAttr(returned[j], DATE))

\* what the code does instead: no record is followed by one whose date is
\* smaller as a string
C17_StringDateOrder ==
    ListReturned =>
        \A i, j \in DOMAIN returned :
            i < j => ~StrLess(GetAttr(returned[j], DATE), GetAttr(returned[i], DATE))

\* the attributes of a record other than readable_date and contact_name,
\* in the order they appear, and as a set
Remaining(item) == SelectSeq(item, LAMBDA p : ~IsIgnored(p.k))

RemainingSet(item) == { Remaining(item)[i] : i \in DOMAIN Remaining(item) }

\* C18 as stated: two records whose attribute sets minus readable_date and
\* contact_name are equal get equal fingerprints whatever the order of their
\* attributes, and only one of them is held.
C18_CanonicalFingerprint ==
    /\ AddedItem =>
         \A i \in DOMAIN item_dict :
             RemainingSet(item_dict[i].item) = RemainingSet(last_call.item)
                 => get_slug(item_dict[i].item) = get_slug(last_call.item)
    /\ \A i, j \in DOMAIN item_dict :
         RemainingSet(item_dict[i].item) = RemainingSet(item_dict[j].item) => i = j

\* C18 amended: two records whose attribute sets minus readable_date and
\* contact_name are equal get equal fingerprints exactly when these
\* attributes appear in the same order in both; only one record is held for
\* each such sequence of attributes, and a record that lists the attributes
\* of a held record in another order is held too.
C18_FingerprintKeepsOrder ==
    /\ AddedItem =>
         /\ \A i \in DOMAIN item_dict :
              RemainingSet(item_dict[i].item) = RemainingSet(last_call.item) =>
                  (get_slug(item_dict[i].item) = get_slug(last_call.item)
                     <=> Remaining(item_dict[i].item) = Remaining(last_call.item))
         /\ \E i \in DOMAIN item_dict :
              Remaining(item_dict[i].item) = Remaining(last_call.item)
    /\ \A i, j \in DOMAIN item_dict :
         Remaining(item_dict[i].item) = Remaining(item_dict[j].item) => i = j

\* two records are held that have the same attributes other than
\* readable_date and contact_name, in different orders
C18_Witness ==
    /\ AddedItem
    /\ \E i, j \in DOMAIN item_dict :
         /\ i # j
         /\ RemainingSet(item_dict[i].item) = RemainingSet(item_dict[j].item)
         /\ item_dict[i].slug # item_dict[j].slug
         /\ item_dict[j].item = last_call.item

\* the records of a set of files
RecordsOf(files) == UNION { { file[i] : i \in DOMAIN file } : file \in files }

\* the sequences that hold the elements of s in another order
Reorderings(s) ==
    { [i \in DOMAIN s |-> s[f[i]]] :
        f \in { g \in [DOMAIN s -> DOMAIN s] :
                  \A i, j \in DOMAIN s : g[i] = g[j] => i = j } }

\* the records of the pass in the order of one enumeration of its files
RecordsInSomeOrder == Flatten(CHOOSE order \in GlobOrders(input_dir[typ]) : TRUE)

\* C19: after add calls that all succeeded, the slugs of the item map are
\* the distinct slugs of the records added, and the list get_list returns
\* has one record for each distinct slug, whatever the order of the add
\* calls.
C19_NoRecordLost ==
    /\ pc = "glob" =>
         { item_dict[i].slug : i \in DOMAIN item_dict }
             = { get_slug(r) : r \in RecordsOf(input_dir[typ] \ files_left) }
    /\ pc = "render_from_list" =>
         LET slugs == { get_slug(r) : r \in RecordsOf(input_dir[typ]) } IN
         /\ Len(all_items[typ]) = Cardinality(slugs)
         /\ SlugsOf(all_items[typ]) = slugs
         /\ \A calls \in Reorderings(RecordsInSomeOrder) :
              LET other == get_ordered_list_of_items(<<calls>>) IN
              /\ ~other.raised
              /\ Len(other.list) = Len(all_items[typ])

\* the calls pass returned two records from three records in two files, two
\* of which have the same slug
C19_Witness ==
    /\ pc = "render_from_list"
    /\ typ = "Calls"
    /\ Cardinality(input_dir["Calls"]) = 2
    /\ Len(RecordsInSomeOrder) = 3
    /\ Len(all_items["Calls"]) = 2

\* C20 as stated: an add call that raises, for want of number and address
\* or of contact_name or readable_date, leaves the item map and the table as
\* they were before the call.
C20_FailedAddLeavesState ==
    [][(last_call'.op = "add" /\ last_call'.raised) =>
         /\ item_dict' = item_dict
         /\ number_to_contact_name' = number_to_contact_name
      ]_vars

\* what the code does instead: an add that raises in get_slug changes
\* nothing; an add that raises in get_address_key leaves the table alone and
\* holds the record unless its slug was held already
C20_FailedAddStoresRecord ==
    [][(last_call'.op = "add" /\ last_call'.raised) =>
         /\ number_to_contact_name' = number_to_contact_name
         /\ IF get_slug_raises(last_call'.item)
            THEN item_dict' = item_dict
            ELSE /\ get_address_key_raises(last_call'.item)
                 /\ ~InDict(item_dict, get_slug(last_call'.item))
                 /\ item_dict' = Append(item_dict,
                                        [slug |-> get_slug(last_call'.item),
                                         item |-> last_call'.item])
      ]_vars

====
